---------------------------- MODULE Spec2Model ----------------------------
(***************************************************************************)
(* A model of climate.c: main's file loop, analyze_file's line loop        *)
(* (fgets, the length guard, sscanf, range validation, find-or-create,     *)
(* update) and print_report.                                               *)
(*                                                                         *)
(* Text is modelled character by character: a line is a sequence of        *)
(* one-character strings, fgets cuts the stream into buffer-sized chunks   *)
(* and sscanf scans a chunk directive by directive.                        *)
(*                                                                         *)
(* Numbers: a double is modelled as an integer count of tenths (280.5 K    *)
(* is 2805); digits after the first fractional digit are consumed and      *)
(* dropped.  Infinity and NaN, which %lf accepts, are modelled as the      *)
(* values PosInf and NaN with the comparison rules of IEEE arithmetic.     *)
(* Exponents and hexadecimal numerals are not modelled: the input          *)
(* alphabet holds none of the letters e, x, p.                             *)
(***************************************************************************)
EXTENDS Integers, Sequences, FiniteSets, TLC

(***************************************************************************)
(* Program constants.                                                      *)
(***************************************************************************)
\* climate.c:73
LINE_BUFFER == 100

\* climate.c:72: the capacity of main's table
NUM_STATES == 50

\* float.h's DBL_MAX, the largest finite double (climate.c:195-196), in
\* tenths: any number above every finite numeral of the inputs.
DBL_MAX == 100000

PosInf == DBL_MAX + 1

NaN == 0 - (DBL_MAX + 2)

EXIT_SUCCESS == 0

EXIT_FAILURE == 1

(***************************************************************************)
(* Bounds of the model.                                                    *)
(***************************************************************************)
\* analyze_file's and print_report's parameter num_states, the capacity of
\* the table they are given.  main passes NUM_STATES; both functions use
\* the capacity only as the bound of their scans, and the model runs them,
\* and main's table, at a small capacity, where a full table is reachable.
num_states == 2

\* the most file arguments of a run (argc - 1)
MaxArgs == 2

\* the most lines the files of a run hold together
MaxLines == 3

(***************************************************************************)
(* Characters.                                                             *)
(***************************************************************************)
Digits == <<"0", "1", "2", "3", "4", "5", "6", "7", "8", "9">>

IsSpace(c) == c \in {" ", "\t", "\n"}

IsDigit(c) == \E k \in 1..10 : Digits[k] = c

DigitVal(c) == (CHOOSE k \in 1..10 : Digits[k] = c) - 1

\* case folding of the letters of "inf" and "nan"
Lower(c) ==
    CASE c = "I" -> "i"
      [] c = "N" -> "n"
      [] c = "F" -> "f"
      [] c = "A" -> "a"
      [] OTHER -> c

RECURSIVE SkipWs(_, _)
\* the position of the first character of s at or after p that is not
\* white space (Len(s) + 1 when there is none): a white-space directive of
\* the format, and the leading skip of %s, %llu and %lf
SkipWs(s, p) ==
    IF p <= Len(s) /\ IsSpace(s[p]) THEN SkipWs(s, p + 1) ELSE p

RECURSIVE TakeNonWs(_, _, _)
\* the position after at most w characters of s from p that are not white
\* space
TakeNonWs(s, p, w) ==
    IF w > 0 /\ p <= Len(s) /\ ~IsSpace(s[p])
    THEN TakeNonWs(s, p + 1, w - 1)
    ELSE p

RECURSIVE TakeDigits(_, _)
\* the position after the run of digits of s that starts at p
TakeDigits(s, p) ==
    IF p <= Len(s) /\ IsDigit(s[p]) THEN TakeDigits(s, p + 1) ELSE p

RECURSIVE DigitsVal(_, _, _, _)
\* the decimal value of the digits s[p..q-1], continuing from acc
DigitsVal(s, p, q, acc) ==
    IF p >= q THEN acc ELSE DigitsVal(s, p + 1, q, acc * 10 + DigitVal(s[p]))

\* the result of one conversion: whether it converted, whether the input
\* had ended before it, its value, and the position after it
Converted(ok, eof, val, pos) == [ok |-> ok, eof |-> eof, val |-> val, pos |-> pos]

\* the string of %Ns that starts at a and ends before b
StrFrom(s, a, b) == Converted(b > a, a > Len(s), SubSeq(s, a, b - 1), b)

\* %Ns: skip white space, then at most w characters that are not white space
ScanStr(s, p, w) == StrFrom(s, SkipWs(s, p), TakeNonWs(s, SkipWs(s, p), w))

\* the digits of %llu, which start at b and end before c
ULLFrom(s, a, b, c) == Converted(c > b, a > Len(s), DigitsVal(s, b, c, 0), c)

\* the position after an optional sign at a, which is one of the characters
\* signs
AfterSign(s, a, signs) == IF a <= Len(s) /\ s[a] \in signs THEN a + 1 ELSE a

\* %llu from a, where the white space ends
ULLAt(s, a) ==
    ULLFrom(s, a, AfterSign(s, a, {"+"}), TakeDigits(s, AfterSign(s, a, {"+"})))

\* %llu: skip white space, an optional "+", then one or more digits
ScanULL(s, p) == ULLAt(s, SkipWs(s, p))

\* whether s holds the three letters w (in either case) from p on
WordAt(s, p, w) ==
    /\ p + 2 <= Len(s)
    /\ \A k \in 0..2 : Lower(s[p + k]) = w[k + 1]

\* the value of a decimal numeral in tenths: its integer digits are
\* s[b..c-1]; pt says that a point stands at c, and its fractional digits
\* are then s[c+1..d-1]
Magnitude(s, b, c, pt, d) ==
    DigitsVal(s, b, c, 0) * 10 + (IF pt /\ d > c + 1 THEN DigitVal(s[c + 1]) ELSE 0)

\* the decimal numeral of %lf: one digit at least, before or after the point
Numeral(s, a, neg, b, c, pt, d) ==
    Converted((c > b) \/ (pt /\ d > c + 1), a > Len(s),
              IF neg THEN 0 - Magnitude(s, b, c, pt, d) ELSE Magnitude(s, b, c, pt, d),
              IF pt THEN d ELSE c)

\* the decimal numeral whose integer digits end before c
NumeralTo(s, a, neg, b, c) ==
    Numeral(s, a, neg, b, c, c <= Len(s) /\ s[c] = ".",
            IF c <= Len(s) /\ s[c] = "." THEN TakeDigits(s, c + 1) ELSE c)

\* %lf from b, after the sign: "inf", "nan" or a decimal numeral
DoubleFrom(s, a, neg, b) ==
    IF WordAt(s, b, <<"i", "n", "f">>)
    THEN Converted(TRUE, FALSE, IF neg THEN 0 - PosInf ELSE PosInf, b + 3)
    ELSE IF WordAt(s, b, <<"n", "a", "n">>)
    THEN Converted(TRUE, FALSE, NaN, b + 3)
    ELSE NumeralTo(s, a, neg, b, TakeDigits(s, b))

\* %lf from a, where the white space ends
DoubleAt(s, a) ==
    DoubleFrom(s, a, a <= Len(s) /\ s[a] = "-", AfterSign(s, a, {"-", "+"}))

\* %lf: skip white space, an optional sign, then "inf", "nan" or a decimal
\* numeral (digits, optionally a point and digits, one digit at least).
\* The value is in tenths.
ScanDouble(s, p) == DoubleAt(s, SkipWs(s, p))

\* the k-th conversion of "%2s\t%llu\t%12s\t%lf\t%lf\t%lf\t%lf\t%lf\t%lf"
Conversion(s, p, k) ==
    CASE k = 1 -> ScanStr(s, p, 2)
      [] k = 2 -> ScanULL(s, p)
      [] k = 3 -> ScanStr(s, p, 12)
      [] OTHER -> ScanDouble(s, p)

RECURSIVE ScanFrom(_, _, _, _)
\* the conversions from the k-th on, after those that gave vals, p being
\* the position of the next unread character (r is the k-th conversion)
ScanFrom(s, p, k, vals) ==
    IF k > 9 THEN [n |-> 9, vals |-> vals]
    ELSE CHOOSE res \in
             {IF r.ok THEN ScanFrom(s, r.pos, k + 1, Append(vals, r.val))
              ELSE [n |-> IF k = 1 /\ r.eof THEN 0 - 1 ELSE k - 1, vals |-> vals] :
                 r \in {Conversion(s, SkipWs(s, p), k)}} : TRUE

\* sscanf(line, "%2s\t%llu\t%12s\t%lf\t%lf\t%lf\t%lf\t%lf\t%lf", ...): the
\* number of conversions made (EOF, -1, when the input ends before the
\* first) and their values in order
Sscanf(s) == ScanFrom(s, 1, 1, <<>>)


(***************************************************************************)
(* Doubles: comparison and addition with infinity and NaN.                 *)
(***************************************************************************)
\* a < b on doubles: false when either is NaN
Lt(a, b) == a # NaN /\ b # NaN /\ a < b

\* a > b on doubles: false when either is NaN
Gt(a, b) == a # NaN /\ b # NaN /\ a > b

IsInf(a) == a = PosInf \/ a = 0 - PosInf

\* sum += x on long double: NaN and infinity propagate; the finite sums of
\* the modelled inputs stay far inside the range of long double
AddLD(a, b) ==
    IF a = NaN \/ b = NaN THEN NaN
    ELSE IF IsInf(a) /\ IsInf(b) THEN (IF a = b THEN a ELSE NaN)
    ELSE IF IsInf(a) THEN a
    ELSE IF IsInf(b) THEN b
    ELSE a + b

\* sum / num_records on long double (truncated to tenths): 0/0 is NaN,
\* x/0 an infinity, and no division traps
DivLD(a, n) ==
    IF a = NaN THEN NaN
    ELSE IF IsInf(a) THEN a
    ELSE IF n = 0 THEN (IF a = 0 THEN NaN ELSE IF a > 0 THEN PosInf ELSE 0 - PosInf)
    ELSE IF a >= 0 THEN a \div n ELSE 0 - ((0 - a) \div n)

\* (k - 273.15) * 9/5 + 32, from tenths of a kelvin to thousandths of a
\* degree Fahrenheit
Fahrenheit(k) ==
    IF k = NaN \/ IsInf(k) THEN k ELSE ((k * 100 - 273150) * 9) \div 5 + 32000

(***************************************************************************)
(* struct climate_info and the table.                                      *)
(***************************************************************************)
\* an empty slot of the table: states[i] == NULL
NULL ==
    [alloc |-> FALSE, code |-> <<>>, num_records |-> 0,
     sum_temperature |-> 0, sum_humidity |-> 0, sum_cloudcover |-> 0,
     lightning_strikes |-> 0, snow_records |-> 0,
     max_temp_time |-> 0, min_temp_time |-> 0, max_temp |-> 0, min_temp |-> 0]

\* struct climate_info *states[NUM_STATES] = { NULL };
EmptyTable == [k \in 0..(num_states - 1) |-> NULL]

\* strncpy(states[i]->code, state_code, 2); states[i]->code[2] = '\0';
StrNCpy2(code) == SubSeq(code, 1, IF Len(code) < 2 THEN Len(code) ELSE 2)

\* the accumulator calloc and lines 193-196 make: all fields zero, the
\* code, and the extrema at -DBL_MAX and DBL_MAX
NewInfo(code) ==
    [NULL EXCEPT !.alloc = TRUE, !.code = StrNCpy2(code),
                 !.max_temp = 0 - DBL_MAX, !.min_temp = DBL_MAX]

\* the values of the nine conversions, by the variables sscanf stores them in
Observation(vals) ==
    [state_code |-> vals[1], timestamp |-> vals[2], geohash |-> vals[3],
     humidity |-> vals[4], snow |-> vals[5], cloudcover |-> vals[6],
     lightning |-> vals[7], pressure |-> vals[8], temperature |-> vals[9]]

\* the range validation, lines 173-178, negated: the line goes on
InRange(o) ==
    ~ (\/ Lt(o.humidity, 0) \/ Gt(o.humidity, 1000)
       \/ Lt(o.cloudcover, 0) \/ Gt(o.cloudcover, 1000)
       \/ Lt(o.temperature, 0))

RECURSIVE FindOrCreate_AnyCode(_, _, _, _)
\* FindOrCreate without the strcmp: the first accumulator matches any code
FindOrCreate_AnyCode(st, state_code, k, ok) ==
    IF k >= num_states
    THEN [state_idx |-> 0 - 1, states |-> st, failed |-> FALSE, calloc |-> FALSE]
    ELSE IF st[k].alloc
    THEN [state_idx |-> k, states |-> st, failed |-> FALSE, calloc |-> FALSE]
    ELSE IF ok
    THEN [state_idx |-> k, states |-> [st EXCEPT ![k] = NewInfo(state_code)],
          failed |-> FALSE, calloc |-> TRUE]
    ELSE [state_idx |-> k, states |-> st, failed |-> TRUE, calloc |-> TRUE]

RECURSIVE FindOrCreate(_, _, _, _)
\* the scan of lines 181-199 from slot k on: the slot whose code matches,
\* or the first empty slot, filled when calloc succeeds (ok); state_idx is
\* -1 when the scan ends with neither.  failed: calloc returned NULL.
FindOrCreate(st, state_code, k, ok) ==
    IF k >= num_states
    THEN [state_idx |-> 0 - 1, states |-> st, failed |-> FALSE, calloc |-> FALSE]
    ELSE IF st[k].alloc /\ st[k].code = state_code
    THEN [state_idx |-> k, states |-> st, failed |-> FALSE, calloc |-> FALSE]
    ELSE IF ~st[k].alloc
    THEN IF ok
         THEN [state_idx |-> k, states |-> [st EXCEPT ![k] = NewInfo(state_code)],
               failed |-> FALSE, calloc |-> TRUE]
         ELSE [state_idx |-> k, states |-> st, failed |-> TRUE, calloc |-> TRUE]
    ELSE FindOrCreate(st, state_code, k + 1, ok)

\* lines 207-222: fold one observation into its accumulator
Update(info, o) ==
    LET newmax == Gt(o.temperature, info.max_temp)
        newmin == Lt(o.temperature, info.min_temp)
    IN  [info EXCEPT
            !.num_records = @ + 1,
            !.sum_temperature = AddLD(@, o.temperature),
            !.sum_humidity = AddLD(@, o.humidity),
            !.sum_cloudcover = AddLD(@, o.cloudcover),
            !.lightning_strikes = @ + (IF Gt(o.lightning, 0) THEN 1 ELSE 0),
            !.snow_records = @ + (IF Gt(o.snow, 0) THEN 1 ELSE 0),
            !.max_temp = IF newmax THEN o.temperature ELSE @,
            !.max_temp_time = IF newmax THEN o.timestamp \div 1000 ELSE @,
            !.min_temp = IF newmin THEN o.temperature ELSE @,
            !.min_temp_time = IF newmin THEN o.timestamp \div 1000 ELSE @]

\* the length guard of line 153
TooLong(line) == Len(line) >= LINE_BUFFER - 1

RECURSIVE FgetsLen(_, _)
\* how many characters fgets takes, k being taken already: up to and with
\* the first newline, LINE_BUFFER - 1 at most
FgetsLen(stream, k) ==
    IF k >= Len(stream) \/ k >= LINE_BUFFER - 1 THEN k
    ELSE IF stream[k + 1] = "\n" THEN k + 1
    ELSE FgetsLen(stream, k + 1)

\* the stream cut after its first k characters
CutAt(stream, k) ==
    [line |-> SubSeq(stream, 1, k), rest |-> SubSeq(stream, k + 1, Len(stream))]

\* fgets(line, LINE_BUFFER, file) on an unread stream that is not empty
Fgets(stream) == CutAt(stream, FgetsLen(stream, 0))

(***************************************************************************)
(* print_report.                                                           *)
(***************************************************************************)
\* the slots of the table that hold an accumulator, in slot order
RECURSIVE Present(_, _)
Present(st, k) ==
    IF k >= num_states THEN <<>>
    ELSE (IF st[k].alloc THEN <<k>> ELSE <<>>) \o Present(st, k + 1)

\* the block of lines 245-258 for one accumulator: the averages in tenths,
\* the temperatures in thousandths of a degree Fahrenheit, the times as the
\* time_t handed to ctime
Block(info) ==
    [code |-> info.code,
     num_records |-> info.num_records,
     avg_humidity |-> DivLD(info.sum_humidity, info.num_records),
     avg_temperature |-> Fahrenheit(DivLD(info.sum_temperature, info.num_records)),
     max_temp |-> Fahrenheit(info.max_temp),
     max_temp_time |-> info.max_temp_time,
     min_temp |-> Fahrenheit(info.min_temp),
     min_temp_time |-> info.min_temp_time,
     lightning_strikes |-> info.lightning_strikes,
     snow_records |-> info.snow_records,
     avg_cloudcover |-> DivLD(info.sum_cloudcover, info.num_records)]

\* the "States found:" line, then one block for each of the slots ks
ReportOf(st, ks) ==
    <<  <<"States found", [j \in 1..Len(ks) |-> st[ks[j]].code]>>  >>
    \o [j \in 1..Len(ks) |-> <<"State", Block(st[ks[j]])>>]

\* what print_report writes: the "States found:" line, then one block for
\* each accumulator, in slot order
PrintReport(st) == ReportOf(st, Present(st, 0))

(***************************************************************************)
(* Input: lines in the TDV format of the header comment (lines 41-63),     *)
(* and lines that break it.                                                *)
(***************************************************************************)
RECURSIVE Dec(_)
\* the decimal numeral of n
Dec(n) == IF n < 10 THEN <<Digits[n + 1]>> ELSE Dec(n \div 10) \o <<Digits[(n % 10) + 1]>>

\* the numeral, with one fractional digit, of v tenths
Tenths(v) == Dec(v \div 10) \o <<".">> \o Dec(v % 10)

RECURSIVE Join(_)
\* the fields, each but the last followed by a tab
Join(fields) ==
    IF Len(fields) = 0 THEN <<>>
    ELSE IF Len(fields) = 1 THEN fields[1]
    ELSE fields[1] \o <<"\t">> \o Join(Tail(fields))

Pad(n, c) == [k \in 1..n |-> c]

CA == <<"C", "A">>

TN == <<"T", "N">>

WA == <<"W", "A">>

OR == <<"O", "R">>

\* a geohash of twelve characters
Geohash == <<"9", "q", "r", "c", "j", "q", "k", "3", "y", "c", "8", "0">>

\* the nine fields of a record: humidity 50.0, cloud cover 100.0 and
\* pressure 955.0, the rest as given (numbers in tenths, temp as text)
Fields(code, ts, geo, snow, light, temp) ==
    <<code, Dec(ts), geo, Tenths(500), Tenths(snow), Tenths(1000),
      Tenths(light), Tenths(9550), temp>>

\* a well-formed line
Record(code, ts, snow, light, temp) ==
    Join(Fields(code, ts, Geohash, snow, light, temp)) \o <<"\n">>

\* CA at 280.5 K with lightning, at 1.000 s
LineCA1 == Record(CA, 1000, 0, 10, Tenths(2805))

\* CA at 280.5 K again, with snow, at 2.999 s
LineCA2 == Record(CA, 2999, 10, 0, Tenths(2805))

\* CA at 270.0 K
LineCA3 == Record(CA, 5000, 0, 0, Tenths(2700))

LineTN == Record(TN, 7000, 0, 0, Tenths(2900))

LineWA == Record(WA, 8000, 0, 0, Tenths(2600))

\* a temperature of infinity
LineInf == Record(CA, 9000, 0, 0, <<"i", "n", "f">>)

\* a geohash of thirteen characters, the thirteenth a digit
LineGeo13 == Join(Fields(OR, 3000, Geohash \o <<"5">>, 0, 0, Tenths(2750))) \o <<"\n">>

\* ten fields
LineTen == Join(Fields(TN, 4000, Geohash, 0, 0, Tenths(2950)) \o << <<"7">> >>) \o <<"\n">>

\* eight fields: no temperature
LineEight == Join(SubSeq(Fields(TN, 4000, Geohash, 0, 0, Tenths(2950)), 1, 8)) \o <<"\n">>

\* a humidity of 150.0
LineHumid ==
    Join([Fields(WA, 6000, Geohash, 0, 0, Tenths(2950)) EXCEPT ![4] = Tenths(1500)])
    \o <<"\n">>

\* LINE_BUFFER - 1 characters of filler, then the text of a record, on one line
LineLong == Pad(LINE_BUFFER - 1, "z") \o Record(WA, 4000, 0, 0, Tenths(2950))

\* the lines a file may hold
Lines ==
    <<LineCA1, LineCA2, LineCA3, LineTN, LineWA, LineEight, LineHumid,
      LineInf, LineGeo13, LineTen, LineLong>>

\* where fgets stops when it starts after the first o characters of line c
CutOf == [c \in 1..Len(Lines) |->
            [o \in 0..(Len(Lines[c]) - 1) |->
                o + Len(Fgets(SubSeq(Lines[c], o + 1, Len(Lines[c]))).line)]]

RECURSIVE Offsets(_, _)
\* the offsets in line c at which fgets starts, from o on
Offsets(c, o) ==
    IF o >= Len(Lines[c]) THEN {} ELSE {o} \cup Offsets(c, CutOf[c][o])

\* what fgets returns when it starts after the first o characters of line c
Chunk(c, o) == SubSeq(Lines[c], o + 1, CutOf[c][o])

\* every chunk fgets can return
Chunks == UNION {{Chunk(c, o) : o \in Offsets(c, 0)} : c \in 1..Len(Lines)}

\* Sscanf, tabulated over the chunks
SscanfOf == [ch \in Chunks |-> Sscanf(ch)]

\* the loop body's "continue" and its "return -1": the table and
\* lines_processed as they are, whether analyze_file returns (ret), whether
\* calloc was called, and no observation folded
Leave(st, lp, ret, calloc) ==
    [states |-> st, lines_processed |-> lp, ret |-> ret, calloc |-> calloc,
     folded |-> FALSE, obs |-> <<>>]

\* FoldAt with state_idx left at the last slot when the scan finds none:
\* the observation is folded into the last accumulator
FoldAt_LastSlot(st, lp, o, state_idx, calloc) ==
    [states |-> [st EXCEPT ![IF state_idx = 0 - 1 THEN num_states - 1 ELSE state_idx] =
                                 Update(@, o)],
     lines_processed |-> lp + 1, ret |-> FALSE, calloc |-> calloc,
     folded |-> TRUE, obs |-> <<o>>]

\* lines 201-224: with state_idx -1 the observation is dropped; otherwise
\* it is folded into states[state_idx] and the line is counted
FoldAt(st, lp, o, state_idx, calloc) ==
    IF state_idx = 0 - 1 THEN Leave(st, lp, FALSE, calloc)
    ELSE [states |-> [st EXCEPT ![state_idx] = Update(@, o)],
          lines_processed |-> lp + 1, ret |-> FALSE, calloc |-> calloc,
          folded |-> TRUE, obs |-> <<o>>]

\* AfterFind with "continue" in place of "return -1" when calloc fails
AfterFind_Continues(st, lp, o, f) ==
    IF f.failed THEN Leave(st, lp, FALSE, TRUE)
    ELSE FoldAt(f.states, lp, o, f.state_idx, f.calloc)

\* lines 189-224, with f what the scan for the slot gave
AfterFind(st, lp, o, f) ==
    IF f.failed THEN Leave(st, lp, TRUE, TRUE)
    ELSE FoldAt(f.states, lp, o, f.state_idx, f.calloc)

\* lines 172-224, with o the observation sscanf stored
Validate(st, lp, o, ok) ==
    IF ~InRange(o) THEN Leave(st, lp, FALSE, FALSE)
    ELSE AfterFind(st, lp, o, FindOrCreate(st, o.state_code, 0, ok))

\* lines 164-224, with r what sscanf returned
AfterScan(st, lp, r, ok) ==
    IF r.n # 9 THEN Leave(st, lp, FALSE, FALSE)
    ELSE Validate(st, lp, Observation(r.vals), ok)

\* what the body of the while loop (lines 152-224) does with the chunk
\* fgets returned: the table and lines_processed after it, whether it left
\* analyze_file by return -1 (ret), whether it called calloc, and whether
\* it reached the update (folded, with the observation obs)
LoopBody(st, lp, chunk, ok) ==
    IF TooLong(chunk) THEN Leave(st, lp, FALSE, FALSE)
    ELSE AfterScan(st, lp, SscanfOf[chunk], ok)

(***************************************************************************)
(* The state of a run.                                                     *)
(*                                                                         *)
(* Program state: pc (where main is), argc, i (main's loop index), states, *)
(* files_processed, lines_processed (analyze_file's local), the position   *)
(* in the open file (cur: which of Lines the file holds there, 0 before    *)
(* the first; lo and off: the buffer, line, holds its characters lo+1 to   *)
(* off, and the characters after off are unread), stdout, stderr and       *)
(* exit_status (-1 while the process runs).  A file's lines are chosen as  *)
(* fgets comes to them.                                                    *)
(*                                                                         *)
(* History, read by the properties only: nlines (lines drawn so far),      *)
(* rets (what                                                              *)
(* became of each argument: "noopen", or analyze_file's "0" or "-1"),      *)
(* folds (how many records the table gained during the open file), folded  *)
(* (the observations that reached the update, in order), nalloc (calloc    *)
(* calls that returned NULL) and one (the table of a second run that is    *)
(* handed the same lines as one single file, and whether that run has      *)
(* returned).                                                              *)
(***************************************************************************)
VARIABLES pc, argc, i, states, files_processed, lines_processed, cur, lo, off,
          stdout, stderr, exit_status,
          nlines, rets, folds, folded, nalloc, one

vars == <<pc, argc, i, states, files_processed, lines_processed, cur, lo, off,
          stdout, stderr, exit_status,
          nlines, rets, folds, folded, nalloc, one>>

\* char line[LINE_BUFFER]: what the last fgets put there
line == IF cur = 0 THEN <<>> ELSE SubSeq(Lines[cur], lo + 1, off)

\* the whole input line the buffer's chunk is cut from
raw == IF cur = 0 THEN <<>> ELSE Lines[cur]

\* how many characters of that input line fgets has not read yet
Unread == IF cur = 0 THEN 0 ELSE Len(Lines[cur]) - off

RECURSIVE TotalRecords(_, _)
\* the records of all accumulators of the table together, from slot k on
TotalRecords(st, k) ==
    IF k >= num_states THEN 0 ELSE st[k].num_records + TotalRecords(st, k + 1)

\* the state when main is entered, after the declarations of lines 105-106
Init ==
    /\ pc = "start"
    /\ argc \in 1..(MaxArgs + 1)
    /\ i = 1
    /\ states = EmptyTable
    /\ files_processed = 0
    /\ lines_processed = 0
    /\ cur = 0
    /\ lo = 0
    /\ off = 0
    /\ stdout = <<>>
    /\ stderr = <<>>
    /\ exit_status = 0 - 1
    /\ nlines = 0
    /\ rets = <<>>
    /\ folds = 0
    /\ folded = <<>>
    /\ nalloc = 0
    /\ one = [states |-> EmptyTable, returned |-> FALSE]

\* lines 94-103: no file argument is an error; otherwise every name is
\* printed before any file is opened
Main_Start ==
    /\ pc = "start"
    /\ IF argc < 2
       THEN /\ stderr' = Append(stderr, <<"Not enough arguments provided", 0>>)
            /\ exit_status' = EXIT_FAILURE
            /\ pc' = "done"
            /\ UNCHANGED stdout
       ELSE /\ stdout' = [k \in 1..(argc - 1) |-> <<"Opening file", k>>]
            /\ pc' = "loop"
            /\ UNCHANGED <<stderr, exit_status>>
    /\ UNCHANGED <<argc, i, states, files_processed, lines_processed, cur, lo, off,
                   nlines, rets, folds, folded, nalloc, one>>

\* lines 110-114: fopen returns NULL
Main_OpenFails ==
    /\ pc = "loop"
    /\ i < argc
    /\ stderr' = Append(stderr, <<"Unable to open file", i>>)
    /\ rets' = Append(rets, "noopen")
    /\ i' = i + 1
    /\ UNCHANGED <<pc, argc, states, files_processed, lines_processed, cur, lo, off,
                   stdout, exit_status, nlines, folds, folded, nalloc, one>>

\* Main_Open with the table declared inside the loop: each file starts
\* with an empty table
Main_Open_NewTable ==
    /\ pc = "loop"
    /\ i < argc
    /\ pc' = "analyze"
    /\ states' = EmptyTable
    /\ lines_processed' = 0
    /\ cur' = 0
    /\ lo' = 0
    /\ off' = 0
    /\ folds' = 0
    /\ UNCHANGED <<argc, i, files_processed, stdout, stderr, exit_status,
                   nlines, rets, folded, nalloc, one>>

\* lines 110, 116, 144-149: fopen succeeds and analyze_file is entered
Main_Open ==
    /\ pc = "loop"
    /\ i < argc
    /\ pc' = "analyze"
    /\ lines_processed' = 0
    /\ cur' = 0
    /\ lo' = 0
    /\ off' = 0
    /\ folds' = 0
    /\ UNCHANGED <<argc, i, states, files_processed, stdout, stderr, exit_status,
                   nlines, rets, folded, nalloc, one>>

\* Main_AfterAnalyze with files_processed++ outside the test of the result
Main_AfterAnalyze_CountsAll(r, errs) ==
    /\ files_processed' = files_processed + 1
    /\ stderr' = IF r = 0 THEN stderr \o errs
                 ELSE stderr \o errs \o << <<"Error processing file", i>> >>
    /\ rets' = Append(rets, IF r = 0 THEN "0" ELSE "-1")
    /\ i' = i + 1
    /\ pc' = "loop"

\* lines 116-122: main takes analyze_file's result r (0 or -1), closes the
\* file and goes on to the next argument; errs is what analyze_file wrote
\* to stderr before it returned
Main_AfterAnalyze(r, errs) ==
    /\ IF r = 0
       THEN /\ files_processed' = files_processed + 1
            /\ stderr' = stderr \o errs
       ELSE /\ stderr' = stderr \o errs \o << <<"Error processing file", i>> >>
            /\ UNCHANGED files_processed
    /\ rets' = Append(rets, IF r = 0 THEN "0" ELSE "-1")
    /\ i' = i + 1
    /\ pc' = "loop"

\* the second run, which reads the lines of all opened files as one file,
\* after the chunk: it stops at its first return
OneAfter(chunk, ok) ==
    IF one.returned THEN one
    ELSE LET b == LoopBody(one.states, 0, chunk, ok)
         IN  [states |-> b.states, returned |-> b.ret]

\* lines 151-225: fgets returns a chunk and the loop body runs on it.  The
\* chunk is cut from what is unread of the current line, or from a new line
\* of the file; ok is what calloc does if the body calls it.  When calloc
\* fails the body returns -1 to main (lines 189-192), which closes the file.
Analyze_Line ==
    /\ pc = "analyze"
    /\ Unread > 0 \/ nlines < MaxLines
    /\ \E c \in (IF Unread > 0 THEN {cur} ELSE 1..Len(Lines)), ok \in BOOLEAN :
       \E from \in {IF Unread > 0 THEN off ELSE 0} :
       \E b \in {LoopBody(states, lines_processed, Chunk(c, from), ok)} :
             /\ b.calloc \/ ok
             /\ cur' = c
             /\ lo' = from
             /\ nlines' = IF Unread > 0 THEN nlines ELSE nlines + 1
             /\ states' = b.states
             /\ lines_processed' = b.lines_processed
             /\ folds' = folds + TotalRecords(b.states, 0) - TotalRecords(states, 0)
             /\ folded' = IF b.folded
                          THEN Append(folded,
                                      [code |-> b.obs[1].state_code,
                                       temperature |-> b.obs[1].temperature,
                                       time |-> b.obs[1].timestamp \div 1000])
                          ELSE folded
             /\ one' = OneAfter(Chunk(c, from), ok)
             /\ nalloc' = IF b.calloc /\ ~ok THEN nalloc + 1 ELSE nalloc
             /\ IF b.ret
                THEN /\ Main_AfterAnalyze(0 - 1, << <<"Error: Memory allocation failed", i>> >>)
                     /\ off' = Len(Lines[c])
                ELSE /\ off' = CutOf[c][from]
                     /\ UNCHANGED <<pc, i, files_processed, stderr, rets>>
    /\ UNCHANGED <<argc, stdout, exit_status>>

\* Analyze_Eof with "lines_processed >= 0" for "lines_processed > 0"
Analyze_Eof_NoLines ==
    /\ pc = "analyze"
    /\ Unread = 0
    /\ Main_AfterAnalyze(IF lines_processed >= 0 THEN 0 ELSE 0 - 1, <<>>)
    /\ UNCHANGED <<argc, states, lines_processed, cur, lo, off, stdout, exit_status,
                   nlines, folds, folded, nalloc, one>>

\* lines 151, 227: fgets returns NULL at the end of the file and
\* analyze_file returns 0 if any line was processed, -1 if none
Analyze_Eof ==
    /\ pc = "analyze"
    /\ Unread = 0
    /\ Main_AfterAnalyze(IF lines_processed > 0 THEN 0 ELSE 0 - 1, <<>>)
    /\ UNCHANGED <<argc, states, lines_processed, cur, lo, off, stdout, exit_status,
                   nlines, folds, folded, nalloc, one>>

\* lines 125-139: with no file processed, a diagnostic and EXIT_FAILURE;
\* otherwise the report, the accumulators are freed, EXIT_SUCCESS
Main_Finish ==
    /\ pc = "loop"
    /\ i >= argc
    /\ IF files_processed = 0
       THEN /\ stderr' = Append(stderr, <<"No valid files were processed", 0>>)
            /\ exit_status' = EXIT_FAILURE
            /\ UNCHANGED stdout
       ELSE /\ stdout' = stdout \o PrintReport(states)
            /\ exit_status' = EXIT_SUCCESS
            /\ UNCHANGED stderr
    /\ pc' = "done"
    /\ UNCHANGED <<argc, i, states, files_processed, lines_processed, cur, lo, off,
                   nlines, rets, folds, folded, nalloc, one>>

Next ==
    \/ Main_Start
    \/ Main_OpenFails
    \/ Main_Open
    \/ Analyze_Line
    \/ Analyze_Eof
    \/ Main_Finish

Spec == Init /\ [][Next]_vars

(***************************************************************************)
(* Properties.                                                             *)
(***************************************************************************)
LastOf(q) == q[Len(q)]

\* the "Opening file:" notices of lines 101-103
Notices == [k \in 1..(argc - 1) |-> <<"Opening file", k>>]

\* some part of the report is on stdout
ReportPrinted ==
    \E k \in 1..Len(stdout) : stdout[k][1] \in {"States found", "State"}

\* analyze_file returned 0 for some argument
SomeProcessed == \E k \in 1..Len(rets) : rets[k] = "0"

\* this step is an iteration of analyze_file's loop: fgets returned a chunk
Fgot == pc = "analyze" /\ <<nlines, lo>>' # <<nlines, lo>>

\* this step ends analyze_file: it returns to main
FileEnds == pc = "analyze" /\ pc' = "loop"

\* every slot of the table holds an accumulator
Full(st) == \A k \in 0..(num_states - 1) : st[k].alloc

\* no accumulator of the table has the code
NoMatch(st, code) == \A k \in 0..(num_states - 1) : ~(st[k].alloc /\ st[k].code = code)

\* the chunk passes the length guard, the scan and the range validation
Accepted(chunk) ==
    /\ ~TooLong(chunk)
    /\ SscanfOf[chunk].n = 9
    /\ InRange(Observation(SscanfOf[chunk].vals))

\* the folded observations that carry the code, in order
RECURSIVE Carrying(_, _)
Carrying(obs, code) ==
    IF obs = <<>> THEN <<>>
    ELSE (IF obs[1].code = code THEN <<obs[1]>> ELSE <<>>) \o Carrying(Tail(obs), code)

\* the first of the observations obs whose temperature no other exceeds
\* (sign 1) or no other is below (sign -1)
FirstExtreme(obs, sign) ==
    obs[CHOOSE j \in 1..Len(obs) :
          /\ \A m \in 1..Len(obs) : sign * obs[m].temperature <= sign * obs[j].temperature
          /\ \A m \in 1..(j - 1) : obs[m].temperature # obs[j].temperature]

\* the number of tab-separated fields of a line
TabFields(s) == 1 + Cardinality({k \in 1..Len(s) : s[k] = "\t"})

\* the positions of the tabs of a line, with 0 before them and the position
\* of the line's end after them
FieldEnds(s) ==
    {0} \cup {k \in 1..Len(s) : s[k] = "\t"}
        \cup {IF Len(s) > 0 /\ s[Len(s)] = "\n" THEN Len(s) ELSE Len(s) + 1}

\* the length of the n-th tab-separated field of a line that has one
FieldLen(s, n) ==
    LET lo2 == CHOOSE a \in FieldEnds(s) : Cardinality({x \in FieldEnds(s) : x < a}) = n - 1
        hi2 == CHOOSE a \in FieldEnds(s) : Cardinality({x \in FieldEnds(s) : x < a}) = n
    IN  hi2 - lo2 - 1

-----------------------------------------------------------------------------
\* C1: in a run with file arguments nothing of the report is printed while
\* the run goes on, and when it ends, either analyze_file returned 0 for
\* some argument, the whole report follows the notices and the exit status
\* is EXIT_SUCCESS, or it did for none, stdout holds the notices alone and
\* the exit status is EXIT_FAILURE.
C1_ReportIffFileProcessed ==
    /\ pc # "done" => ~ReportPrinted /\ exit_status = 0 - 1
    /\ pc = "done" /\ argc >= 2 =>
          IF SomeProcessed
          THEN stdout = Notices \o PrintReport(states) /\ exit_status = EXIT_SUCCESS
          ELSE stdout = Notices /\ exit_status = EXIT_FAILURE

\* a run of two files ends: the first failed, the second was processed, and
\* the report is out
C1_Witness ==
    /\ pc = "done"
    /\ nalloc = 0
    /\ rets = <<"-1", "0">>
    /\ ReportPrinted
    /\ exit_status = EXIT_SUCCESS

\* C2 as stated: when analyze_file returns, it returns 0 exactly when a line
\* of the file was folded and -1 exactly when none was, and the return
\* leaves the table as it is.
C2_SuccessIffFolded ==
    [][FileEnds =>
          /\ LastOf(rets') = "0" <=> folds' >= 1
          /\ LastOf(rets') = "-1" <=> folds' = 0
          /\ states' = states]_vars

\* C2, amended: when analyze_file returns, it returns 0 exactly when a line
\* of the file was folded and calloc did not fail, and -1 otherwise (no line
\* folded, or calloc failed, even after lines were folded); the return
\* leaves the table as it is.
C2_SuccessIffFoldedAndAllocated ==
    [][FileEnds =>
          /\ LastOf(rets') = "0" <=> (folds' >= 1 /\ nalloc' = nalloc)
          /\ LastOf(rets') = "-1" <=> (folds' = 0 \/ nalloc' = nalloc + 1)
          /\ states' = states]_vars

\* analyze_file has returned -1 for a file of which a line was folded, and
\* what was folded is still in the table
C2_Witness ==
    /\ pc = "loop"
    /\ rets # <<>>
    /\ LastOf(rets) = "-1"
    /\ folds >= 1
    /\ TotalRecords(states, 0) >= 1

\* C3: every accumulator of the table has as many records as observations
\* carrying its code were folded, one at least, and no block of the report
\* divides by a record count of zero.
C3_RecordCount ==
    /\ \A k \in 0..(num_states - 1) :
          states[k].alloc =>
             /\ states[k].num_records = Len(Carrying(folded, states[k].code))
             /\ states[k].num_records >= 1
    /\ \A k \in 1..Len(stdout) :
          stdout[k][1] = "State" => stdout[k][2].num_records >= 1

\* the report is out for a table of two accumulators, one of them with two
\* records
C3_Witness ==
    /\ pc = "done"
    /\ ReportPrinted
    /\ states[0].alloc /\ states[0].num_records = 2
    /\ states[1].alloc

C5_FullTableDrops ==
    [][(/\ Fgot
        /\ Full(states)
        /\ Accepted(line')
        /\ NoMatch(states, SscanfOf[line'].vals[1]))
       => /\ states' = states
          /\ lines_processed' = lines_processed
          /\ folded' = folded
          /\ pc' = "analyze"]_vars

\* the buffer holds an accepted line whose code the full table does not have
C5_Witness ==
    /\ pc = "analyze"
    /\ Full(states)
    /\ cur # 0
    /\ Accepted(line)
    /\ NoMatch(states, SscanfOf[line].vals[1])

\* C6: every accumulator's max_temp is the largest temperature folded for
\* its code and max_temp_time the time of the first observation that had
\* it, and min_temp and min_temp_time likewise for the smallest.
C6_FirstExtrema ==
    \A k \in 0..(num_states - 1) :
       states[k].alloc /\ Carrying(folded, states[k].code) # <<>> =>
          /\ states[k].max_temp = FirstExtreme(Carrying(folded, states[k].code), 1).temperature
          /\ states[k].max_temp_time = FirstExtreme(Carrying(folded, states[k].code), 1).time
          /\ states[k].min_temp = FirstExtreme(Carrying(folded, states[k].code), 0 - 1).temperature
          /\ states[k].min_temp_time = FirstExtreme(Carrying(folded, states[k].code), 0 - 1).time

\* C7: no chunk of an input line of LINE_BUFFER - 1 characters or more (with
\* its newline) changes the table.
C7_LongLineIgnored ==
    [][Fgot /\ Len(raw') >= LINE_BUFFER - 1 => states' = states]_vars

\* C8: no line whose number of tab-separated fields is not nine changes the
\* table.
C8_NineFields ==
    [][Fgot /\ TabFields(raw') # 9 => states' = states]_vars

\* C9: no line whose geohash, the third field, has more than twelve
\* characters changes the table.
C9_LongGeohashRejected ==
    [][Fgot /\ TabFields(raw') >= 3 /\ FieldLen(raw', 3) > 12 => states' = states]_vars

\* C10 as stated: once calloc has failed, analyze_file is not running (no
\* line is read, no further file is entered) and no report is printed.
C10_AllocFailureAborts == nalloc > 0 => pc # "analyze" /\ ~ReportPrinted

\* C10, amended: the step in which calloc fails ends analyze_file with -1:
\* the table, lines_processed and files_processed stay as they are, both
\* diagnostics are written, nothing is printed, and main goes on to the
\* next argument.
C10_AllocFailureEndsFile ==
    [][nalloc' # nalloc =>
          /\ FileEnds
          /\ i' = i + 1
          /\ LastOf(rets') = "-1"
          /\ states' = states
          /\ lines_processed' = lines_processed
          /\ files_processed' = files_processed
          /\ stderr' = stderr \o << <<"Error: Memory allocation failed", i>>,
                                   <<"Error processing file", i>> >>
          /\ stdout' = stdout]_vars

\* calloc failed in the first file; the second file was processed after it
\* and the report is out
C10_Witness ==
    /\ pc = "done"
    /\ nalloc = 1
    /\ rets = <<"-1", "0">>
    /\ ReportPrinted
    /\ exit_status = EXIT_SUCCESS

=============================================================================
